---- MODULE Spec2Model ----
(***************************************************************************)
(* A model of devs-ebook-converter.py: the Streamlit page `main` and the   *)
(* dispatcher `convert_ebook`, the temporary files they stage, and the     *)
(* status elements they render.                                            *)
(*                                                                         *)
(* Every browser session runs `main` in a thread of its own, so the        *)
(* sessions' steps interleave on one shared file system.  A byte string is *)
(* a sequence of symbols; an ebook of format f is well formed when it      *)
(* starts with f's magic symbol, and the rest is the book it carries.      *)
(* A path is a record (directory, base name, serial, extension).           *)
(*                                                                         *)
(* The reader and writer routines are the external library's; they are     *)
(* taken to exist as line 3 imports them.  A reader fails on content that  *)
(* is not of its format, a writer may fail with an I/O error, and so may   *)
(* creating or writing the temp file.  Each script run gets the upload as  *)
(* a stream positioned at its start.                                       *)
(***************************************************************************)
EXTENDS Integers, Sequences, FiniteSets, TLC

VARIABLES
    fs,               \* the file system: path -> bytes
    owner,            \* ghost: path -> id of the request that created the file
    nextTmp,          \* tempfile's supply of unused names
    nReq,             \* convert_ebook invocations so far (the request ids)
    foreign,          \* ghost: accesses to a file another request created
    pc,               \* per session: where its script run stands
    uploaded_file,    \* per session: the upload (originating suffix, bytes)
    output_format,    \* per session: the selected target format
    output_name,      \* per session: the text of the output-name field
    pos,              \* per session: read position of the upload's stream
    input_file_path,  \* per session: the staged temp input file
    result,           \* per session: what convert_ebook returned
    errors,           \* per session: the st.error messages of this run
    rendered,         \* per session: the status elements on the page
    download,         \* per session: the download button, if rendered
    calls,            \* per session: reader/writer routines invoked by this call
    invocations,      \* per session: convert_ebook calls of the current action
    created,          \* ghost, per session: paths the current call created
    raised,           \* ghost, per session: exception raised inside this call
    output_file_bytes,\* per session: convert_ebook's local of that name
    req               \* per session: id of the current request

shared == <<fs, owner, nextTmp, nReq, foreign>>
inputs == <<uploaded_file, output_format, output_name>>
frame  == <<pos, input_file_path, output_file_bytes, result, calls, created, raised, req>>
page   == <<errors, rendered, download, invocations>>
vars   == <<shared, pc, inputs, frame, page>>

----------------------------------------------------------------------------
(* Bounds and finite input sets *)

MaxConversions == 2

Sessions == {"s1", "s2"}
Harness  == "s1"

INPUT_FORMATS  == {"epub", "mobi", "azw3"}
OUTPUT_FORMATS == {"epub", "mobi", "azw3"}

DefaultName == "converted_ebook"
Names       == {"", "book1"}
Suffixes    == INPUT_FORMATS \cup {"EPUB", "txt"}
Targets     == OUTPUT_FORMATS \cup {"pdf"}

----------------------------------------------------------------------------
(* The external library's formats *)

Magic(f) ==
    CASE f = "epub" -> "E"
      [] f = "mobi" -> "M"
      [] f = "azw3" -> "A"
      [] OTHER      -> "?"

WellFormed(f) == <<Magic(f), "a">>
Junk          == <<"x">>
\* the uploads tried under a filename suffix: a well-formed book of the format
\* the suffix names, and bytes no reader can parse
Contents(suffix) == {WellFormed(suffix), Junk}

\* read_<f>(path): parses the bytes of the file; raises on malformed content
ReadBook(f, bytes) ==
    IF Len(bytes) >= 1 /\ bytes[1] = Magic(f)
    THEN [ok |-> TRUE,  book |-> Tail(bytes)]
    ELSE [ok |-> FALSE, book |-> <<>>]

\* write_<f>(book, path): the bytes the writer puts in the file
WriteBook(f, book) == <<Magic(f)>> \o book

----------------------------------------------------------------------------
(* Values *)

None       == [some |-> FALSE, data |-> <<>>]
BytesIO(b) == [some |-> TRUE,  data |-> b]

TruthyAlways(r) == TRUE
\* `if converted_file:` -- a BytesIO object is truthy, None is not
Truthy(r) == r.some

NoFile     == [suffix |-> "", data |-> <<>>]
NoDownload == [shown |-> FALSE, label |-> <<>>, file_name |-> <<>>, mime |-> <<>>, data |-> <<>>]
NoPath     == [dir |-> "", base |-> "", n |-> 0, ext |-> ""]

Err(kind, detail, to) == [kind |-> kind, detail |-> detail, to |-> to]

\* str.lower()
Lower(x) == IF x = "EPUB" THEN "epub" ELSE x

TempSuffixEpub == "epub"
\* tempfile.NamedTemporaryFile(delete=False): no suffix is asked for
TempSuffix == ""

TempPathFixed(n) == [dir |-> "tmp", base |-> "tmp", n |-> 0, ext |-> TempSuffix]
\* the name NamedTemporaryFile gives: one that no existing file has
TempPath(n) == [dir |-> "tmp", base |-> "tmp", n |-> n, ext |-> TempSuffix]

\* f"{output_name}.{output_format}", relative to the working directory
OutPath(name, fmt) == [dir |-> "cwd", base |-> name, n |-> 0, ext |-> fmt]

\* os.path.splitext(path)[1][1:]
Splitext(path) == path.ext

\* input_file.read(): the bytes from the read position on
ReadStream(data, p) == SubSeq(data, p + 1, Len(data))

NameValidAlways(name) == TRUE
\* `if not output_name:` -- the empty string is the invalid name
NameValid(name) == name # ""

CatchesParseOnly(ex) == ex = "ParseError"
\* `except Exception as e:` catches every failure of the try block
Catches(ex) == TRUE

\* the pairs with a read-then-write branch in the if/elif chain
HasPath(s, t) ==
    \/ s = "epub" /\ t \in {"mobi", "azw3"}
    \/ s = "mobi" /\ t = "epub"
    \/ s = "azw3" /\ t \in {"epub", "mobi"}

\* ghost: an access by request `me` to a file another request created
Touch(me, p, op, f, o) ==
    IF p \in DOMAIN f /\ o[p] # me THEN {<<me, op, p>>} ELSE {}

----------------------------------------------------------------------------
Init ==
    /\ fs = << >>
    /\ owner = << >>
    /\ nextTmp = 1
    /\ nReq = 0
    /\ foreign = {}
    /\ pc = [s \in Sessions |-> "noFile"]
    /\ uploaded_file = [s \in Sessions |-> NoFile]
    /\ output_format = [s \in Sessions |-> "epub"]
    /\ output_name = [s \in Sessions |-> DefaultName]
    /\ pos = [s \in Sessions |-> 0]
    /\ input_file_path = [s \in Sessions |-> NoPath]
    /\ result = [s \in Sessions |-> None]
    /\ output_file_bytes = [s \in Sessions |-> None]
    /\ errors = [s \in Sessions |-> <<>>]
    /\ rendered = [s \in Sessions |-> {}]
    /\ download = [s \in Sessions |-> NoDownload]
    /\ calls = [s \in Sessions |-> <<>>]
    /\ invocations = [s \in Sessions |-> 0]
    /\ created = [s \in Sessions |-> {}]
    /\ raised = [s \in Sessions |-> ""]
    /\ req = [s \in Sessions |-> 0]

----------------------------------------------------------------------------
(* convert_ebook *)

\* a script run starts with no convert_ebook frame; id is the request id of
\* the call the run makes, 0 when it makes none
NewFrame(s, id) ==
    /\ req' = [req EXCEPT ![s] = id]
    /\ pos' = [pos EXCEPT ![s] = 0]
    /\ input_file_path' = [input_file_path EXCEPT ![s] = NoPath]
    /\ output_file_bytes' = [output_file_bytes EXCEPT ![s] = None]
    /\ result' = [result EXCEPT ![s] = None]
    /\ calls' = [calls EXCEPT ![s] = <<>>]
    /\ created' = [created EXCEPT ![s] = {}]
    /\ raised' = [raised EXCEPT ![s] = ""]

\* lines 80-82: the handler of the try block, entered with exception ex
Handler(s, ex) ==
    /\ raised' = [raised EXCEPT ![s] = ex]
    /\ IF Catches(ex)
       THEN /\ errors' = [errors EXCEPT ![s] = Append(@, Err("ConversionFailed", ex, ""))]
            /\ rendered' = [rendered EXCEPT ![s] = @ \cup {"error"}]
            /\ result' = [result EXCEPT ![s] = None]
            /\ pc' = [pc EXCEPT ![s] = "returned"]
       ELSE /\ UNCHANGED <<errors, rendered, result>>
            /\ pc' = [pc EXCEPT ![s] = "crashed"]

\* lines 26-28: stage the upload in a fresh temp file.  fault: "none", or an
\* I/O failure when the file is created ("create") or written ("write")
Stage(s) ==
    /\ pc[s] = "staging"
    /\ \E fault \in {"none", "create", "write"} :
         LET p    == TempPath(nextTmp)
             data == ReadStream(uploaded_file[s].data, pos[s])
         IN  IF fault = "create"
             THEN /\ Handler(s, "OSError")
                  /\ UNCHANGED <<shared, pos, input_file_path, created>>
             ELSE /\ nextTmp' = nextTmp + 1
                  /\ fs' = (p :> (IF fault = "write" THEN <<>> ELSE data)) @@ fs
                  /\ owner' = IF p \in DOMAIN owner THEN owner ELSE (p :> req[s]) @@ owner
                  /\ foreign' = foreign \cup Touch(req[s], p, "write", fs, owner)
                  /\ created' = [created EXCEPT ![s] = @ \cup {p}]
                  /\ pos' = [pos EXCEPT ![s] = Len(uploaded_file[s].data)]
                  /\ UNCHANGED nReq
                  /\ IF fault = "write"
                     THEN /\ Handler(s, "OSError")
                          /\ UNCHANGED input_file_path
                     ELSE /\ input_file_path' = [input_file_path EXCEPT ![s] = p]
                          /\ pc' = [pc EXCEPT ![s] = "staged"]
                          /\ UNCHANGED <<result, raised, errors, rendered>>
    /\ UNCHANGED <<inputs, output_file_bytes, calls, req, download, invocations>>

\* st.error(...); return None
Reject(s, e) ==
    /\ errors' = [errors EXCEPT ![s] = Append(@, e)]
    /\ rendered' = [rendered EXCEPT ![s] = @ \cup {"error"}]
    /\ result' = [result EXCEPT ![s] = None]
    /\ pc' = [pc EXCEPT ![s] = "returned"]
    /\ UNCHANGED raised

\* lines 31-69: infer the format, then the if/elif chain of format pairs
Dispatch(s, wfail) ==
    LET me               == req[s]
        input_format     == Lower(Splitext(input_file_path[s]))
        output_file_path == OutPath(output_name[s], output_format[s])
        t                == output_format[s]
        rd               == ReadBook(input_format, fs[input_file_path[s]])
        reader           == <<"read", input_format>>
        writer           == <<"write", t>>
        readTouch        == Touch(me, input_file_path[s], "read", fs, owner)
    IN  IF input_format \notin INPUT_FORMATS
        THEN /\ Reject(s, Err("UnsupportedInputFormat", input_format, ""))
             /\ UNCHANGED <<shared, pos, output_file_bytes, calls, created>>
        ELSE IF input_format = t
        THEN \* lines 41-45: the stream is read a second time
             /\ result' = [result EXCEPT ![s] =
                              BytesIO(ReadStream(uploaded_file[s].data, pos[s]))]
             /\ pos' = [pos EXCEPT ![s] = Len(uploaded_file[s].data)]
             /\ pc' = [pc EXCEPT ![s] = "returned"]
             /\ UNCHANGED <<shared, output_file_bytes, calls, created, raised,
                            errors, rendered>>
        ELSE IF input_format = "mobi" /\ t = "azw3"
        THEN \* lines 56-60: the mobi file is parsed before the rejection
             /\ calls' = [calls EXCEPT ![s] = Append(@, reader)]
             /\ foreign' = foreign \cup readTouch
             /\ IF rd.ok
                THEN Reject(s, Err("UnsupportedPair", "mobi", "azw3"))
                ELSE Handler(s, "ParseError")
             /\ UNCHANGED <<fs, owner, nextTmp, nReq, pos, output_file_bytes, created>>
        ELSE IF HasPath(input_format, t)
        THEN IF ~rd.ok
             THEN /\ calls' = [calls EXCEPT ![s] = Append(@, reader)]
                  /\ foreign' = foreign \cup readTouch
                  /\ Handler(s, "ParseError")
                  /\ UNCHANGED <<fs, owner, nextTmp, nReq, pos, output_file_bytes, created>>
             ELSE IF wfail
             THEN /\ calls' = [calls EXCEPT ![s] = @ \o <<reader, writer>>]
                  /\ foreign' = foreign \cup readTouch
                  /\ Handler(s, "OSError")
                  /\ UNCHANGED <<fs, owner, nextTmp, nReq, pos, output_file_bytes, created>>
             ELSE /\ calls' = [calls EXCEPT ![s] = @ \o <<reader, writer>>]
                  /\ foreign' = foreign \cup readTouch
                                  \cup Touch(me, output_file_path, "write", fs, owner)
                  /\ fs' = (output_file_path :> WriteBook(t, rd.book)) @@ fs
                  /\ owner' = IF output_file_path \in DOMAIN owner THEN owner
                              ELSE (output_file_path :> me) @@ owner
                  /\ created' = [created EXCEPT ![s] = @ \cup {output_file_path}]
                  /\ pc' = [pc EXCEPT ![s] = "written"]
                  /\ UNCHANGED <<nextTmp, nReq, pos, output_file_bytes, result,
                                 raised, errors, rendered>>
        ELSE \* lines 67-69
             /\ Reject(s, Err("UnsupportedPair", input_format, t))
             /\ UNCHANGED <<shared, pos, output_file_bytes, calls, created>>

\* lines 72-73: read the converted file back
ReadBack(s) ==
    LET output_file_path == OutPath(output_name[s], output_format[s])
    IN  IF output_file_path \in DOMAIN fs
        THEN /\ output_file_bytes' = [output_file_bytes EXCEPT ![s] =
                                         BytesIO(fs[output_file_path])]
             /\ foreign' = foreign \cup Touch(req[s], output_file_path, "read", fs, owner)
             /\ pc' = [pc EXCEPT ![s] = "read"]
             /\ UNCHANGED <<fs, owner, nextTmp, nReq, result, raised, errors, rendered>>
        ELSE /\ Handler(s, "OSError")
             /\ UNCHANGED <<shared, output_file_bytes>>

\* os.remove(path), lines 76 and 77; then line 78 returns the bytes
Remove(s, path, next) ==
    IF path \in DOMAIN fs
    THEN /\ fs' = [q \in DOMAIN fs \ {path} |-> fs[q]]
         /\ owner' = [q \in DOMAIN owner \ {path} |-> owner[q]]
         /\ foreign' = foreign \cup Touch(req[s], path, "remove", fs, owner)
         /\ pc' = [pc EXCEPT ![s] = next]
         /\ result' = [result EXCEPT ![s] =
                          IF next = "returned" THEN output_file_bytes[s] ELSE @]
         /\ UNCHANGED <<nextTmp, nReq, raised, errors, rendered>>
    ELSE /\ Handler(s, "OSError")
         /\ UNCHANGED shared

\* lines 31-78: the steps of convert_ebook after the upload is staged
Convert(s) ==
    /\ pc[s] \in {"staged", "written", "read", "removed"}
    /\ \E wfail \in BOOLEAN :
         IF pc[s] = "staged" THEN Dispatch(s, wfail)
         ELSE IF pc[s] = "written"
         THEN ReadBack(s) /\ UNCHANGED <<pos, calls, created>>
         ELSE IF pc[s] = "read"
         THEN /\ Remove(s, input_file_path[s], "removed")
              /\ UNCHANGED <<pos, output_file_bytes, calls, created>>
         ELSE /\ Remove(s, OutPath(output_name[s], output_format[s]), "returned")
              /\ UNCHANGED <<pos, output_file_bytes, calls, created>>
    /\ UNCHANGED <<inputs, input_file_path, req, download, invocations>>

----------------------------------------------------------------------------
(* main *)

\* lines 92-97: a script run with no upload renders the prompt
RunIdle(s) ==
    /\ pc[s] = "noFile"
    /\ rendered[s] = {}
    /\ rendered' = [rendered EXCEPT ![s] = {"info"}]
    /\ UNCHANGED <<shared, pc, inputs, frame, errors, download, invocations>>

\* line 92: st.file_uploader(type=INPUT_FORMATS) hands over a file whose
\* extension is one of the listed ones
Upload(s) ==
    /\ pc[s] = "noFile"
    /\ \E suffix \in Suffixes : \E data \in Contents(Lower(suffix)) :
         /\ Lower(suffix) \in INPUT_FORMATS
         /\ uploaded_file' = [uploaded_file EXCEPT ![s] = [suffix |-> suffix, data |-> data]]
    /\ rendered' = [rendered EXCEPT ![s] = {}]
    /\ pc' = [pc EXCEPT ![s] = "ready"]
    /\ UNCHANGED <<shared, output_format, output_name, frame, errors, download, invocations>>

\* lines 100-114: the Convert button is pressed with a target format and an
\* output name; the run ends at line 110 or calls convert_ebook at line 114
Click(s) ==
    /\ pc[s] \in {"ready", "done"}
    /\ \E fmt \in OUTPUT_FORMATS, name \in Names :
         /\ output_format' = [output_format EXCEPT ![s] = fmt]
         /\ output_name' = [output_name EXCEPT ![s] = name]
         /\ download' = [download EXCEPT ![s] = NoDownload]
         /\ IF ~NameValid(name)
            THEN /\ errors' = [errors EXCEPT ![s] =
                                  <<Err("InvalidRequest", name, "")>>]
                 /\ rendered' = [rendered EXCEPT ![s] = {"error"}]
                 /\ invocations' = [invocations EXCEPT ![s] = 0]
                 /\ NewFrame(s, 0)
                 /\ pc' = [pc EXCEPT ![s] = "done"]
                 /\ UNCHANGED nReq
            ELSE /\ nReq < MaxConversions
                 /\ errors' = [errors EXCEPT ![s] = <<>>]
                 /\ rendered' = [rendered EXCEPT ![s] = {}]
                 /\ invocations' = [invocations EXCEPT ![s] = 1]
                 /\ nReq' = nReq + 1
                 /\ NewFrame(s, nReq + 1)
                 /\ pc' = [pc EXCEPT ![s] = "staging"]
    /\ UNCHANGED <<fs, owner, nextTmp, foreign, uploaded_file>>

\* lines 117-126: success with the download button, or "Conversion failed."
Render(s) ==
    /\ pc[s] = "returned"
    /\ IF Truthy(result[s])
       THEN /\ rendered' = [rendered EXCEPT ![s] = @ \cup {"success"}]
            /\ download' = [download EXCEPT ![s] =
                 [shown     |-> TRUE,
                  label     |-> <<"Download ", output_name[s], ".", output_format[s]>>,
                  file_name |-> <<output_name[s], ".", output_format[s]>>,
                  mime      |-> <<"application/", output_format[s]>>,
                  data      |-> result[s].data]]
            /\ UNCHANGED errors
       ELSE /\ rendered' = [rendered EXCEPT ![s] = @ \cup {"error"}]
            /\ errors' = [errors EXCEPT ![s] = Append(@, Err("Banner", "Conversion failed.", ""))]
            /\ UNCHANGED download
    /\ pc' = [pc EXCEPT ![s] = "done"]
    /\ UNCHANGED <<shared, inputs, frame, invocations>>

Next ==
    \E s \in Sessions :
        \/ RunIdle(s)
        \/ Upload(s)
        \/ Click(s)
        \/ Stage(s)
        \/ Convert(s)
        \/ Render(s)

Spec == Init /\ [][Next]_vars

----------------------------------------------------------------------------
(* convert_ebook called on its own, with any upload, target and name *)

Call ==
    /\ pc[Harness] \in {"noFile", "returned"}
    /\ nReq < MaxConversions
    /\ \E suffix \in Suffixes, fmt \in Targets, name \in Names :
       \E data \in Contents(Lower(suffix)) :
         /\ uploaded_file' = [uploaded_file EXCEPT ![Harness] = [suffix |-> suffix, data |-> data]]
         /\ output_format' = [output_format EXCEPT ![Harness] = fmt]
         /\ output_name' = [output_name EXCEPT ![Harness] = name]
    /\ errors' = [errors EXCEPT ![Harness] = <<>>]
    /\ rendered' = [rendered EXCEPT ![Harness] = {}]
    /\ invocations' = [invocations EXCEPT ![Harness] = 1]
    /\ nReq' = nReq + 1
    /\ NewFrame(Harness, nReq + 1)
    /\ pc' = [pc EXCEPT ![Harness] = "staging"]
    /\ UNCHANGED <<fs, owner, nextTmp, foreign, download>>

NextCall ==
    \/ Call
    \/ Stage(Harness)
    \/ Convert(Harness)

SpecCall == Init /\ [][NextCall]_vars

----------------------------------------------------------------------------
(* Properties *)

\* the session's convert_ebook call has returned
Returned(s) == pc[s] \in {"returned", "done"} /\ invocations[s] = 1

\* the session's convert_ebook call is under way or has just returned
InFlight(s) == pc[s] \in {"staging", "staged", "written", "read", "removed", "returned"}

IsConvertError(e) == e.kind \notin {"Banner", "InvalidRequest"}

\* the messages convert_ebook itself reported
ConvErrors(s) == SelectSeq(errors[s], IsConvertError)

\* the source format the upload's filename announces
SourceFormat(s) == Lower(uploaded_file[s].suffix)

\* C1: a call whose upload has a supported source format f and whose target
\* is f returns exactly the uploaded bytes.
C1_NoOpReturnsInput ==
    \A s \in Sessions :
        (/\ Returned(s)
         /\ raised[s] = ""
         /\ SourceFormat(s) \in INPUT_FORMATS
         /\ SourceFormat(s) = output_format[s])
        => result[s] = BytesIO(uploaded_file[s].data)

\* C2: once a call has returned, no file it created still exists.
C2_TempStorageReleased ==
    \A s \in Sessions :
        Returned(s) => created[s] \cap DOMAIN fs = {}

\* C3: an upload whose filename suffix is a supported format is dispatched
\* under that format and is not rejected as an unsupported input format.
C3_FormatFromUploadSuffix ==
    \A s \in Sessions :
        (/\ Returned(s)
         /\ input_file_path[s] # NoPath
         /\ uploaded_file[s].suffix \in INPUT_FORMATS)
        => /\ Lower(Splitext(input_file_path[s])) = uploaded_file[s].suffix
           /\ \A i \in 1..Len(errors[s]) : errors[s][i].kind # "UnsupportedInputFormat"

\* C4: a mobi upload with target azw3 always ends in the one UnsupportedPair
\* error and no artifact, whatever the content.
C4_MobiToAzw3Unsupported ==
    \A s \in Sessions :
        (/\ Returned(s)
         /\ input_file_path[s] # NoPath
         /\ uploaded_file[s].suffix = "mobi"
         /\ output_format[s] = "azw3")
        => /\ ConvErrors(s) = <<Err("UnsupportedPair", "mobi", "azw3")>>
           /\ result[s] = None

\* C5 as stated: an upload whose suffix is not a supported format is
\* reported as UnsupportedInputFormat, with no artifact and no reader or
\* writer invoked.
C5_AlwaysUnsupportedInput ==
    \A s \in Sessions :
        (Returned(s) /\ SourceFormat(s) \notin INPUT_FORMATS)
        => /\ Len(ConvErrors(s)) = 1
           /\ ConvErrors(s)[1].kind = "UnsupportedInputFormat"
           /\ result[s] = None
           /\ calls[s] = <<>>

\* C5 amended: for an upload whose suffix is not a supported format no
\* reader or writer is ever invoked, and the call returns no artifact and
\* reports UnsupportedInputFormat -- or ConversionFailed, when staging the
\* upload in the temp file itself failed.
C5_RejectedBeforeAnyRead ==
    \A s \in Sessions :
        (invocations[s] = 1 /\ SourceFormat(s) \notin INPUT_FORMATS)
        => /\ calls[s] = <<>>
           /\ pc[s] \notin {"written", "read", "removed"}
           /\ Returned(s) =>
                /\ result[s] = None
                /\ Len(ConvErrors(s)) = 1
                /\ IF input_file_path[s] # NoPath
                   THEN ConvErrors(s)[1].kind = "UnsupportedInputFormat"
                   ELSE ConvErrors(s)[1] = Err("ConversionFailed", "OSError", "")

C5_Witness ==
    \E s \in Sessions :
        /\ Returned(s)
        /\ uploaded_file[s].suffix = "txt"
        /\ input_file_path[s] # NoPath
        /\ ConvErrors(s)[1].kind = "UnsupportedInputFormat"

\* C6: a failure raised inside convert_ebook never escapes it: the call
\* returns None with one ConversionFailed message carrying the failure.
C6_FailuresAreCaught ==
    \A s \in Sessions :
        /\ pc[s] # "crashed"
        /\ raised[s] # "" =>
             /\ pc[s] \in {"returned", "done"}
             /\ result[s] = None
             /\ ConvErrors(s) = <<Err("ConversionFailed", raised[s], "")>>

C6_Witness ==
    \E s \in Sessions :
        /\ raised[s] = "OSError"
        /\ pc[s] = "done"
        /\ "error" \in rendered[s]

\* C7: a Convert action with an empty output name ends with the invalid-
\* request error, without a convert_ebook call, a temp file or a download.
C7_EmptyNameNeverDispatched ==
    \A s \in Sessions :
        output_name[s] = "" =>
            /\ pc[s] = "done"
            /\ invocations[s] = 0
            /\ errors[s] = <<Err("InvalidRequest", "", "")>>
            /\ rendered[s] = {"error"}
            /\ created[s] = {}
            /\ req[s] = 0
            /\ ~download[s].shown

C7_Witness ==
    \E s \in Sessions :
        /\ pc[s] = "done"
        /\ output_name[s] = ""
        /\ errors[s] = <<Err("InvalidRequest", "", "")>>

\* C8: a well-formed upload of format s, a target t with a conversion path
\* and a non-empty name n end in success with a download named n.t, of
\* MIME type application/t, carrying what the writer for t produced.
C8_ConversionSucceeds ==
    \A s \in Sessions :
        (/\ pc[s] = "done"
         /\ invocations[s] = 1
         /\ raised[s] = ""
         /\ uploaded_file[s].suffix \in INPUT_FORMATS
         /\ uploaded_file[s].data = WellFormed(uploaded_file[s].suffix)
         /\ HasPath(uploaded_file[s].suffix, output_format[s])
         /\ output_name[s] # "")
        => /\ rendered[s] = {"success"}
           /\ download[s].shown
           /\ download[s].file_name = <<output_name[s], ".", output_format[s]>>
           /\ download[s].mime = <<"application/", output_format[s]>>
           /\ download[s].data =
                WriteBook(output_format[s],
                          ReadBook(uploaded_file[s].suffix, uploaded_file[s].data).book)

\* what C9 says of the page once a Convert action is over
OneStatus(s) ==
    /\ Cardinality(rendered[s]) = 1
    /\ rendered[s] \subseteq {"info", "error", "success"}
    /\ ("success" \in rendered[s]) <=> result[s].some
    /\ download[s].shown <=> ("success" \in rendered[s])

\* C9 as stated: every Convert action invokes convert_ebook exactly once
\* and ends with exactly one status, success iff an artifact was returned.
C9_ExactlyOnceAlways ==
    \A s \in Sessions :
        pc[s] = "done" => invocations[s] = 1 /\ OneStatus(s)

\* C9 amended: a Convert action invokes convert_ebook exactly once when the
\* output name is non-empty and not at all when it is empty, never a second
\* time; it ends with exactly one status, success with the download iff an
\* artifact was returned.
C9_AtMostOnceOneStatus ==
    \A s \in Sessions :
        /\ invocations[s] \in {0, 1}
        /\ pc[s] = "noFile" => rendered[s] \subseteq {"info"}
        /\ pc[s] = "done" =>
             /\ invocations[s] = IF output_name[s] # "" THEN 1 ELSE 0
             /\ OneStatus(s)

C9_Witness ==
    \E s \in Sessions :
        /\ pc[s] = "done"
        /\ invocations[s] = 1
        /\ result[s] = None
        /\ rendered[s] = {"error"}

\* C10: no request reads, overwrites or deletes a file another request
\* created, and two requests under way never hold the same staged file.
C10_RequestsShareNoFiles ==
    /\ foreign = {}
    /\ \A s \in Sessions :
         /\ \A p \in created[s] \cap DOMAIN fs : owner[p] = req[s]
         /\ \A t \in Sessions \ {s} :
              InFlight(s) /\ InFlight(t) => created[s] \cap created[t] = {}

C10_Witness ==
    /\ pc["s1"] = "staged"
    /\ pc["s2"] = "staged"
    /\ output_name["s1"] = output_name["s2"]
    /\ output_format["s1"] = output_format["s2"]
    /\ input_file_path["s1"] # input_file_path["s2"]
    /\ {input_file_path["s1"], input_file_path["s2"]} \subseteq DOMAIN fs

====
